---- MODULE Spec2Model ----
(***************************************************************************)
(* Model of converter.py: a configuration language compiled to XML.        *)
(*                                                                         *)
(* main() reads the input, hands it to a Lark LALR(1) parser built with    *)
(* transformer=ConfigTransformer(), serializes the returned items with     *)
(* value_to_xml and writes the pretty-printed tree to the output path.     *)
(*                                                                         *)
(* With an inline transformer the callbacks of ConfigTransformer run at    *)
(* every LALR reduction, bottom-up, while the text is still being read:    *)
(* rules that have a method (number, value, array, dict, dict_entry,       *)
(* const_expr, const, item, start) are replaced by the method's result,    *)
(* the other rules (expr, term, factor, add, sub, mul, div, function)      *)
(* become Tree nodes.  Unnamed string tokens ("const", "len", "(", ...)    *)
(* are filtered out of the children, and an absent [...] group is passed   *)
(* as one None child (Lark 1.x, maybe_placeholders).                       *)
(*                                                                         *)
(* Abstractions: a float is a fixed-point decimal with Scale units per     *)
(* one (products and quotients are truncated to that precision); a         *)
(* document is a sequence of top-level items, each read as one step of     *)
(* the parser, followed by the look-ahead token of the next item.          *)
(***************************************************************************)
EXTENDS Integers, Sequences, FiniteSets, TLC

(* ------------------------------------------------------------------ *)
(* Bounds                                                               *)
(* ------------------------------------------------------------------ *)
MaxItems == 3

(* units of a float per one: two fractional decimal digits *)
Scale == 10 * 10

(* ------------------------------------------------------------------ *)
(* Python values the transformer produces                               *)
(* ------------------------------------------------------------------ *)
IntV(i)      == [k |-> "Integer", n |-> i]
FloatV(u)    == [k |-> "Float", m |-> u]
Sym(s)       == [k |-> "Symbol", s |-> s]
Arr(items)   == [k |-> "Array", items |-> items]
DictV(es)    == [k |-> "Dict", entries |-> es]
NoneV        == [k |-> "None"]
Raise(e)     == [k |-> "Raise", exc |-> e]

IsRaise(v)   == v.k = "Raise"
(* isinstance(x, (int, float)) *)
IsNum(v)     == v.k \in {"Integer", "Float"}
(* isinstance(x, str) *)
IsStr(v)     == v.k = "Symbol"
(* the numeric value in units of 1/Scale *)
Units(v)     == IF v.k = "Integer" THEN v.n * Scale ELSE v.m

Abs(i)       == IF i < 0 THEN -i ELSE i
(* quotient truncated toward zero *)
Quot(x, y)   == IF (x < 0) = (y < 0) THEN Abs(x) \div Abs(y)
                ELSE -(Abs(x) \div Abs(y))

(* ------------------------------------------------------------------ *)
(* Parse trees.  A Tree has a field data; a value has a field k.        *)
(* ------------------------------------------------------------------ *)
Tree(data, children) == [data |-> data, children |-> children]
(* SIGNED_NUMBER token with text n/d (d = 1: no fraction, d = 10: one digit) *)
NumTok(n, d) == [data |-> "number", n |-> n, d |-> d]
CnameTok(s)  == [data |-> "CNAME", value |-> s]
IsTree(node) == "data" \in DOMAIN node

(* an evaluation result: the value (or the exception raised) and the    *)
(* binary operations and calls performed on the way, in order           *)
Ret(v, ops)  == [val |-> v, ops |-> ops]
OpRec(op, l, r, out) == [op |-> op, left |-> l, right |-> r, out |-> out]

(* ------------------------------------------------------------------ *)
(* ConfigTransformer                                                    *)
(* ------------------------------------------------------------------ *)

(* def CNAME(self, token): return token.value *)
CNAME(token) == Sym(token.value)

(* def number(self, n): val = float(text); int(val) if val.is_integer() *)
number(n) ==
    IF n.n % n.d = 0 THEN IntV(n.n \div n.d)
    ELSE FloatV(n.n * (Scale \div n.d))

(* op_func with floor division (//) in place of true division *)
op_func_floordiv(op, a, b) ==
    LET ints == a.k = "Integer" /\ b.k = "Integer" IN
    CASE op = "add" -> IF ints THEN IntV(a.n + b.n)
                       ELSE FloatV(Units(a) + Units(b))
      [] op = "sub" -> IF ints THEN IntV(a.n - b.n)
                       ELSE FloatV(Units(a) - Units(b))
      [] op = "mul" -> IF ints THEN IntV(a.n * b.n)
                       ELSE FloatV(Quot(Units(a) * Units(b), Scale))
      [] op = "div" -> IF Units(b) # 0
                       THEN IF ints THEN IntV(a.n \div b.n)
                            ELSE FloatV(Quot(Units(a) * Scale, Units(b)))
                       ELSE Raise("ZeroDivisionError")

(* op_func with a division that yields 0 on a zero divisor *)
op_func_safediv(op, a, b) ==
    LET ints == a.k = "Integer" /\ b.k = "Integer" IN
    CASE op = "add" -> IF ints THEN IntV(a.n + b.n)
                       ELSE FloatV(Units(a) + Units(b))
      [] op = "sub" -> IF ints THEN IntV(a.n - b.n)
                       ELSE FloatV(Units(a) - Units(b))
      [] op = "mul" -> IF ints THEN IntV(a.n * b.n)
                       ELSE FloatV(Quot(Units(a) * Units(b), Scale))
      [] op = "div" -> IF Units(b) # 0
                       THEN FloatV(Quot(Units(a) * Scale, Units(b)))
                       ELSE IntV(0)

(* the lambdas of _transform_tree and _zero_division_error *)
op_func(op, a, b) ==
    LET ints == a.k = "Integer" /\ b.k = "Integer" IN
    CASE op = "add" -> IF ints THEN IntV(a.n + b.n)
                       ELSE FloatV(Units(a) + Units(b))
      [] op = "sub" -> IF ints THEN IntV(a.n - b.n)
                       ELSE FloatV(Units(a) - Units(b))
      [] op = "mul" -> IF ints THEN IntV(a.n * b.n)
                       ELSE FloatV(Quot(Units(a) * Units(b), Scale))
      [] op = "div" -> IF Units(b) # 0
                       THEN FloatV(Quot(Units(a) * Scale, Units(b)))
                       ELSE Raise("ZeroDivisionError")

RECURSIVE _get_value(_, _)
RECURSIVE _transform_tree(_, _)

(* _eval_binary_op raising only when neither operand is a number: a    *)
(* str or list times a number is then Python's repetition, the other    *)
(* mixed operations raise TypeError by themselves                       *)
_eval_binary_op_either(children, op, constants) ==
    LET l == _get_value(children[1], constants) IN
    IF IsRaise(l.val) THEN l
    ELSE LET r == _get_value(children[2], constants) IN
         IF IsRaise(r.val) THEN Ret(r.val, l.ops \o r.ops)
         ELSE LET out == IF ~(IsNum(l.val) \/ IsNum(r.val))
                         THEN Raise("TypeError")
                         ELSE IF IsNum(l.val) /\ IsNum(r.val)
                         THEN op_func(op, l.val, r.val)
                         ELSE IF op = "mul"
                         THEN (IF IsNum(l.val) THEN r.val ELSE l.val)
                         ELSE Raise("TypeError")
              IN Ret(out, l.ops \o r.ops \o <<OpRec(op, l.val, r.val, out)>>)

(* _eval_binary_op: both operands are evaluated, left first, then the   *)
(* isinstance check, then the operator                                  *)
_eval_binary_op(children, op, constants) ==
    LET l == _get_value(children[1], constants) IN
    IF IsRaise(l.val) THEN l
    ELSE LET r == _get_value(children[2], constants) IN
         IF IsRaise(r.val) THEN Ret(r.val, l.ops \o r.ops)
         ELSE LET out == IF ~(IsNum(l.val) /\ IsNum(r.val))
                         THEN Raise("TypeError")
                         ELSE op_func(op, l.val, r.val)
              IN Ret(out, l.ops \o r.ops \o <<OpRec(op, l.val, r.val, out)>>)

(* _eval_function: the tree of rule function holds the argument only,   *)
(* the keyword ("len" or "abs", kept here as tree.fn) is filtered out;  *)
(* children[0] is read as the name and children[1] as the argument      *)
_eval_function(tree, constants) ==
    IF Len(tree.children) < 2
    THEN Ret(Raise("IndexError"),
             <<OpRec(tree.fn, tree.children[1], NoneV, Raise("IndexError"))>>)
    ELSE LET func_name == tree.children[1]
             arg == _get_value(tree.children[2], constants)
         IN IF IsRaise(arg.val) THEN arg
            ELSE LET out ==
                       IF func_name = Sym("len")
                       THEN IF arg.val.k = "Array"
                            THEN IntV(Len(arg.val.items))
                            ELSE Raise("TypeError")
                       ELSE IF func_name = Sym("abs")
                       THEN IF IsNum(arg.val)
                            THEN IF arg.val.k = "Integer"
                                 THEN IntV(Abs(arg.val.n))
                                 ELSE FloatV(Abs(arg.val.m))
                            ELSE Raise("TypeError")
                       ELSE Raise("ValueError")
                 IN Ret(out, arg.ops \o
                             <<OpRec(tree.fn, tree.children[2], NoneV, out)>>)

(* _get_value: a Tree is transformed, a str is looked up in constants,  *)
(* anything else is returned as it is                                   *)
_get_value(node, constants) ==
    IF IsTree(node) THEN _transform_tree(node, constants)
    ELSE IF IsStr(node)
         THEN IF node.s \in DOMAIN constants
              THEN Ret(constants[node.s], <<>>)
              ELSE Ret(node, <<>>)
         ELSE Ret(node, <<>>)

(* _transform_tree on the trees the parser leaves in an expression *)
_transform_tree(tree, constants) ==
    CASE tree.data \in {"add", "sub", "mul", "div"} ->
            _eval_binary_op(tree.children, tree.data, constants)
      [] tree.data = "function" -> _eval_function(tree, constants)
      [] tree.data \in {"expr", "term", "factor"} ->
            _get_value(tree.children[1], constants)
      [] OTHER -> Ret(tree, <<>>)

(* _get_value applied to a value already reduced (never a Tree) *)
Resolve(v, constants) == _get_value(v, constants).val

(* def value(self, children) *)
value(children, constants) == _get_value(children[1], constants)

(* def const_expr(self, children) *)
const_expr(children, constants) == _get_value(children[1], constants)

(* def array(self, items) *)
array(items, constants) ==
    Arr([i \in 1..Len(items) |-> Resolve(items[i], constants)])

(* def dict_entry(self, items) *)
(* the tuple (key, value) *)
dict_entry(items) == [k |-> "tuple", key |-> items[1].s, val |-> items[2]]

(* the pairs kept as a list: a repeated key is entered again *)
DictSet_append(es, key, v) == Append(es, [key |-> key, val |-> v])

(* d[k] = v on an insertion-ordered dict: a present key keeps its place *)
DictSet(es, key, v) ==
    IF \E i \in 1..Len(es) : es[i].key = key
    THEN [i \in 1..Len(es) |->
             IF es[i].key = key THEN [key |-> key, val |-> v] ELSE es[i]]
    ELSE Append(es, [key |-> key, val |-> v])

RECURSIVE DictOf(_, _)
DictOf(items, constants) ==
    IF items = <<>> THEN <<>>
    ELSE LET n == Len(items) IN
         DictSet(DictOf(SubSeq(items, 1, n - 1), constants),
                 items[n].key, Resolve(items[n].val, constants))

(* def dict(self, items): {k: self._get_value(v) for k, v in items} *)
dict(items, constants) == DictV(DictOf(items, constants))

(* def const(self, children): the binding and the item it returns *)
const(children, constants) ==
    LET name == children[1].s
        v == Resolve(children[2], constants)
    IN [item |-> [k |-> "const", name |-> name, value |-> v],
        constants |-> [x \in DOMAIN constants \cup {name} |->
                          IF x = name THEN v ELSE constants[x]]]

(* def item(self, children) *)
item(children) == children[1]

(* ------------------------------------------------------------------ *)
(* The inline transformer: callbacks applied bottom-up at reductions    *)
(* ------------------------------------------------------------------ *)
RECURSIVE BuildTree(_)
(* an expression subtree as the parser leaves it: rules without a       *)
(* method stay Tree nodes, tokens and number have been called back      *)
BuildTree(e) ==
    CASE e.data = "number" -> number(e)
      [] e.data = "CNAME"  -> CNAME(e)
      [] OTHER -> [e EXCEPT !.children =
                      [i \in 1..Len(e.children) |-> BuildTree(e.children[i])]]

RECURSIVE Reduce(_, _)
RECURSIVE ReduceSeq(_, _)

(* the children of a rule, reduced left to right up to the first raise *)
ReduceSeq(nodes, constants) ==
    IF nodes = <<>> THEN [vals |-> <<>>, ops |-> <<>>, exc |-> NoneV]
    ELSE LET n == Len(nodes)
             front == ReduceSeq(SubSeq(nodes, 1, n - 1), constants)
         IN IF IsRaise(front.exc) THEN front
            ELSE LET r == Reduce(nodes[n], constants) IN
                 IF IsRaise(r.val)
                 THEN [vals |-> front.vals, ops |-> front.ops \o r.ops,
                       exc |-> r.val]
                 ELSE [vals |-> Append(front.vals, r.val),
                       ops |-> front.ops \o r.ops, exc |-> NoneV]

Reduce(node, constants) ==
    CASE node.data = "number" -> Ret(number(node), <<>>)
      [] node.data = "CNAME"  -> Ret(CNAME(node), <<>>)
      [] node.data = "const_expr" ->
            const_expr(<<BuildTree(node.children[1])>>, constants)
      [] node.data = "value" ->
            LET c == Reduce(node.children[1], constants) IN
            IF IsRaise(c.val) THEN c
            ELSE Ret(value(<<c.val>>, constants).val, c.ops)
      [] node.data = "array" ->
            LET cs == ReduceSeq(node.children, constants) IN
            IF IsRaise(cs.exc) THEN Ret(cs.exc, cs.ops)
            ELSE Ret(array(IF node.children = <<>> THEN <<NoneV>>
                           ELSE cs.vals, constants), cs.ops)
      [] node.data = "dict_entry" ->
            LET v == Reduce(node.children[2], constants) IN
            IF IsRaise(v.val) THEN v
            ELSE Ret(dict_entry(<<CNAME(node.children[1]), v.val>>), v.ops)
      [] node.data = "dict" ->
            LET cs == ReduceSeq(node.children, constants) IN
            IF IsRaise(cs.exc) THEN Ret(cs.exc, cs.ops)
            ELSE Ret(dict(cs.vals, constants), cs.ops)

(* ------------------------------------------------------------------ *)
(* Serializer                                                           *)
(* ------------------------------------------------------------------ *)
Elem(tag, attrib, text, children) ==
    [tag |-> tag, attrib |-> attrib, text |-> text, children |-> children]

DigitChars == <<"0", "1", "2", "3", "4", "5", "6", "7", "8", "9">>

RECURSIVE NatText(_)
NatText(n) ==
    IF n < 10 THEN <<DigitChars[n + 1]>>
    ELSE NatText(n \div 10) \o <<DigitChars[(n % 10) + 1]>>

(* the digits after the point: at least one, no trailing zero *)
RECURSIVE FracText(_, _)
FracText(f, scale) ==
    LET unit == scale \div 10 IN
    IF unit = 1 \/ f % unit = 0 THEN <<DigitChars[(f \div unit) + 1]>>
    ELSE <<DigitChars[(f \div unit) + 1]>> \o FracText(f % unit, unit)

(* str(value) for the values that reach a text node *)
str(v) ==
    CASE v.k = "Integer" ->
            IF v.n < 0 THEN <<"-">> \o NatText(-v.n) ELSE NatText(v.n)
      [] v.k = "Float" ->
            (IF v.m < 0 THEN <<"-">> ELSE <<>>)
            \o NatText(Abs(v.m) \div Scale) \o <<".">>
            \o FracText(Abs(v.m) % Scale, Scale)
      [] v.k = "Symbol" -> <<v.s>>
      [] OTHER -> <<"None">>

(* the number element with the type test on the wrong class *)
number_elem_untyped(v) ==
    Elem("number",
         <<<<"type", IF IsNum(v) THEN "integer" ELSE "float">>>>,
         str(v), <<>>)

(* the number branch: text = str(value), type = integer or float *)
number_elem(v) ==
    Elem("number",
         <<<<"type", IF v.k = "Integer" THEN "integer" ELSE "float">>>>,
         str(v), <<>>)

RECURSIVE value_to_xml(_)
(* the element value_to_xml appends to its parent *)
value_to_xml(v) ==
    IF IsNum(v)
    THEN number_elem(v)
    ELSE IF v.k = "Array"
    THEN Elem("array", <<>>, <<>>,
              [i \in 1..Len(v.items) |-> value_to_xml(v.items[i])])
    ELSE IF v.k = "Dict"
    THEN Elem("dict", <<>>, <<>>,
              [i \in 1..Len(v.entries) |->
                  Elem("entry", <<<<"key", v.entries[i].key>>>>, <<>>,
                       <<value_to_xml(v.entries[i].val)>>)])
    ELSE IF v.k = "const"
    THEN Elem("const", <<<<"name", v.name>>>>, <<>>,
              <<value_to_xml(v.value)>>)
    ELSE IF IsStr(v)
    THEN Elem("string", <<>>, str(v), <<>>)
    ELSE Elem("value", <<>>, str(v), <<>>)

(* root = ET.Element("config"); for item in result: value_to_xml(item, root) *)
BuildRoot(items) ==
    Elem("config", <<>>, <<>>,
         [i \in 1..Len(items) |-> value_to_xml(items[i])])

(* ------------------------------------------------------------------ *)
(* Documents: the parse trees of the top-level items                    *)
(* ------------------------------------------------------------------ *)
V(x)           == Tree("value", <<x>>)
Leaf(x)        == Tree("term", <<Tree("factor", <<x>>)>>)
Paren(e)       == Tree("factor", <<Tree("expr", <<e>>)>>)
Bin(op, l, r)  == Tree(op, <<l, r>>)
Fn(name, e)    == [data |-> "function", fn |-> name,
                   children |-> <<Tree("expr", <<e>>)>>]
CE(e)          == Tree("const_expr", <<Tree("expr", <<e>>)>>)
Entry(key, x)  == Tree("dict_entry", <<CnameTok(key), V(x)>>)
ConstItem(name, x) ==
    Tree("item", <<Tree("const", <<CnameTok(name), V(x)>>)>>)
BareItem(x)    == Tree("item", <<x>>)
(* text that is not an item: wrong from its first token on, or only     *)
(* after a token that can start an item                                 *)
BadItem(at)    == [data |-> "error", at |-> at]

Items == <<
    ConstItem("a", NumTok(10, 1)),
    ConstItem("a", NumTok(25, 10)),
    ConstItem("a", CnameTok("b")),
    ConstItem("b", NumTok(0, 1)),
    ConstItem("c", CnameTok("a")),
    ConstItem("a", Tree("array", <<V(NumTok(2, 1)), V(CnameTok("b"))>>)),
    BareItem(Tree("array", <<>>)),
    ConstItem("a", Tree("dict", <<Entry("a", NumTok(1, 1)),
                                  Entry("b", CnameTok("a")),
                                  Entry("a", CnameTok("b"))>>)),
    ConstItem("c", CE(Bin("mul", Leaf(CnameTok("a")), Leaf(NumTok(2, 1))))),
    ConstItem("c", CE(Bin("div", Leaf(CnameTok("a")), Leaf(CnameTok("b"))))),
    ConstItem("c", CE(Bin("add", Leaf(CnameTok("a")), Leaf(NumTok(25, 10))))),
    ConstItem("a", CE(Bin("div", Leaf(NumTok(10, 1)), Leaf(NumTok(2, 1))))),
    ConstItem("c", CE(Bin("div", Leaf(NumTok(1, 1)), Leaf(NumTok(0, 1))))),
    ConstItem("c", CE(Bin("div", Leaf(CnameTok("b")),
        Paren(Bin("sub", Leaf(CnameTok("a")), Leaf(CnameTok("a"))))))),
    ConstItem("c", CE(Tree("term", <<Tree("factor",
        <<Fn("len", Leaf(CnameTok("a")))>>)>>))),
    ConstItem("c", CE(Tree("term", <<Tree("factor",
        <<Fn("abs", Leaf(NumTok(-4, 1)))>>)>>))),
    BadItem("first"),
    BadItem("later") >>

(* a document names its items by their place in Items *)
Docs == UNION {[1..n -> 1..Len(Items)] : n \in 0..MaxItems}

VARIABLES
    input,      \* "readable", "missing" or "unreadable"
    doc,        \* the items of the input text
    pc,         \* where main is: read, parse, serialize, write, done
    constants,  \* ConfigTransformer.constants
    result,     \* the items reduced so far (children of start)
    ops,        \* operations evaluated while reducing the last item
    root,       \* the element tree, <<>> before it is built
    outfile,    \* the file at the output path
    status,     \* exit status, -1 while running
    message     \* what is printed on failure

vars == <<input, doc, pc, constants, result, ops, root, outfile, status,
          message>>

(* the file at the output path before the run *)
OldFile == [exists |-> TRUE, data |-> <<"old">>]

NoConstants == [x \in {} |-> NoneV]

Init ==
    /\ \/ input = "readable" /\ doc \in Docs
       \/ input \in {"missing", "unreadable"} /\ doc = <<>>
    /\ pc = "read"
    /\ constants = NoConstants
    /\ result = <<>>
    /\ ops = <<>>
    /\ root = <<>>
    /\ outfile = OldFile
    /\ status = -1
    /\ message = "none"

(* the except clauses of main; anything else is an uncaught traceback *)
Report(exc) ==
    CASE exc = "LarkError"         -> "Syntax error"
      [] exc = "ValueError"        -> "Semantic error"
      [] exc = "ZeroDivisionError" -> "Runtime error"
      [] exc = "TypeError"         -> "Type error"
      [] OTHER                     -> "Traceback"

Exit(exc) ==
    /\ pc' = "done"
    /\ status' = 1
    /\ message' = Report(exc)

(* with open(args.input) ...: source = f.read() *)
ReadInput ==
    /\ pc = "read" /\ input = "readable"
    /\ pc' = "parse"
    /\ UNCHANGED <<input, doc, constants, result, ops, root, outfile,
                   status, message>>

(* except FileNotFoundError: print, sys.exit(1) *)
ReadMissing ==
    /\ pc = "read" /\ input = "missing"
    /\ pc' = "done" /\ status' = 1 /\ message' = "Input file not found"
    /\ UNCHANGED <<input, doc, constants, result, ops, root, outfile>>

(* any other failure of open or read is not caught *)
ReadFails ==
    /\ pc = "read" /\ input = "unreadable"
    /\ Exit("OSError")
    /\ UNCHANGED <<input, doc, constants, result, ops, root, outfile>>

(* the first token of the item after the next one cannot be shifted *)
NextBad ==
    /\ Len(result) + 2 <= Len(doc)
    /\ Items[doc[Len(result) + 2]].data = "error"
    /\ Items[doc[Len(result) + 2]].at = "first"

(* what reading item it does: the exception it ends in, or the item.    *)
(* Reductions inside an array or a table happen before the item's last  *)
(* token; the reduction of a const_expr that is the value of a const,   *)
(* and every final callback, wait for the look-ahead token.             *)
ReadItem(it, bad) ==
    IF it.data = "error"
    THEN [exc |-> "LarkError", ops |-> <<>>]
    ELSE LET inner == it.children[1] IN
         IF inner.data = "const"
         THEN LET late == inner.children[2].children[1].data = "const_expr"
                  v == Reduce(inner.children[2], constants)
              IN IF IsRaise(v.val) /\ ~late
                 THEN [exc |-> v.val.exc, ops |-> v.ops]
                 ELSE IF bad
                 THEN [exc |-> "LarkError",
                       ops |-> IF late THEN <<>> ELSE v.ops]
                 ELSE IF IsRaise(v.val)
                 THEN [exc |-> v.val.exc, ops |-> v.ops]
                 ELSE LET c == const(<<CNAME(inner.children[1]), v.val>>,
                                     constants)
                      IN [exc |-> "none", ops |-> v.ops,
                          item |-> item(<<c.item>>),
                          constants |-> c.constants]
         ELSE LET r == Reduce(inner, constants) IN
              IF IsRaise(r.val)
              THEN [exc |-> r.val.exc, ops |-> r.ops]
              ELSE IF bad
              THEN [exc |-> "LarkError", ops |-> r.ops]
              ELSE [exc |-> "none", ops |-> r.ops,
                    item |-> item(<<r.val>>), constants |-> constants]

(* parser.parse(source): one top-level item is read and reduced *)
ParseItem ==
    /\ pc = "parse" /\ Len(result) < Len(doc)
    /\ LET r == ReadItem(Items[doc[Len(result) + 1]], NextBad) IN
       /\ r.exc = "none"
       /\ result' = Append(result, r.item)
       /\ constants' = r.constants
       /\ ops' = r.ops
    /\ UNCHANGED <<input, doc, pc, root, outfile, status, message>>

(* parser.parse(source) raises: LarkError or an exception of a callback *)
ParseFails ==
    /\ pc = "parse" /\ Len(result) < Len(doc)
    /\ LET r == ReadItem(Items[doc[Len(result) + 1]], NextBad) IN
       /\ r.exc # "none"
       /\ ops' = r.ops
       /\ Exit(r.exc)
    /\ UNCHANGED <<input, doc, constants, result, root, outfile>>

(* the end of the text: start returns the items, the tree is built and  *)
(* pretty-printed                                                       *)
Serialize ==
    /\ pc = "parse" /\ Len(result) = Len(doc)
    /\ root' = <<BuildRoot(result)>>
    /\ pc' = "write"
    /\ UNCHANGED <<input, doc, constants, result, ops, outfile, status,
                   message>>

(* with open(args.output, 'w') as f: f.write(xml_str) *)
WriteOutput ==
    /\ pc = "write"
    /\ outfile' = [exists |-> TRUE, data |-> root]
    /\ pc' = "done" /\ status' = 0
    /\ UNCHANGED <<input, doc, constants, result, ops, root, message>>

(* open(args.output, 'w') raises OSError: not caught, nothing opened *)
OpenFails ==
    /\ pc = "write"
    /\ Exit("OSError")
    /\ UNCHANGED <<input, doc, constants, result, ops, root, outfile>>

(* open has created or truncated the file, then f.write raises OSError *)
WriteFails ==
    /\ pc = "write"
    /\ outfile' = [exists |-> TRUE, data |-> <<>>]
    /\ Exit("OSError")
    /\ UNCHANGED <<input, doc, constants, result, ops, root>>

Next ==
    \/ ReadInput
    \/ ReadMissing
    \/ ReadFails
    \/ ParseItem
    \/ ParseFails
    \/ Serialize
    \/ WriteOutput
    \/ OpenFails
    \/ WriteFails

Spec == Init /\ [][Next]_vars

(* ------------------------------------------------------------------ *)
(* Vocabulary of the properties                                         *)
(* ------------------------------------------------------------------ *)
BinaryOps == {"add", "sub", "mul", "div"}

(* the item read as k-th, and the parts of a const item *)
ItemAt(k)      == Items[doc[k]]
IsConstItem(it) == it.data = "item" /\ it.children[1].data = "const"
ConstName(it)  == it.children[1].children[1].value
ConstValue(it) == it.children[1].children[2].children[1]
(* the array or table literal an item consists of or binds, if any *)
IsLiteral(it, data) ==
    /\ it.data = "item"
    /\ \/ it.children[1].data = data
       \/ IsConstItem(it) /\ ConstValue(it).data = data
LiteralOf(it) ==
    IF IsConstItem(it) THEN ConstValue(it) ELSE it.children[1]
(* the value an output item carries *)
ValueOf(r) == IF r.k = "const" THEN r.value ELSE r

SetMax(S) == CHOOSE x \in S : \A y \in S : y <= x

(* the bindings made by output items 1..k-1 *)
BindingsBefore(name, k) ==
    {i \in 1..(k - 1) : result[i].k = "const" /\ result[i].name = name}
(* one lookup of name in the table as it is when item k is read *)
LookupBefore(name, k) ==
    IF BindingsBefore(name, k) = {} THEN Sym(name)
    ELSE result[SetMax(BindingsBefore(name, k))].value
TableBefore(k) ==
    [x \in {result[i].name : i \in {j \in 1..(k - 1) : result[j].k = "const"}}
        |-> LookupBefore(x, k)]

(* parsing was abandoned; ops then belongs to the item that failed *)
ParseFailed == pc = "done" /\ root = <<>> /\ input = "readable"
OpsItem == IF ParseFailed THEN Len(result) + 1 ELSE Len(result)

HasSyntaxError == \E k \in 1..Len(doc) : ItemAt(k).data = "error"

(* ------------------------------------------------------------------ *)
(* C1                                                                   *)
(* ------------------------------------------------------------------ *)

(* C1: an identifier reference in item k (a const value, an array      *)
(* element, a table entry value, an operand) yields the value bound by *)
(* the latest earlier binding of that name, or Symbol(name): exactly   *)
(* one lookup, so a Symbol result is never looked up again.            *)
C1_SingleLookup ==
    \A k \in 1..Len(result) :
        LET it == ItemAt(k) IN
        /\ (IsConstItem(it) /\ ConstValue(it).data = "CNAME")
              => result[k].value = LookupBefore(ConstValue(it).value, k)
        /\ IsLiteral(it, "array") =>
              \A i \in 1..Len(LiteralOf(it).children) :
                  LET e == LiteralOf(it).children[i].children[1] IN
                  e.data = "CNAME" =>
                      ValueOf(result[k]).items[i] = LookupBefore(e.value, k)
        /\ IsLiteral(it, "dict") =>
              \A i \in 1..Len(LiteralOf(it).children) :
                  LET en == LiteralOf(it).children[i]
                      e == en.children[2].children[1]
                      last == \A j \in (i + 1)..Len(LiteralOf(it).children) :
                                 LiteralOf(it).children[j].children[1].value
                                     # en.children[1].value
                  IN (e.data = "CNAME" /\ last) =>
                      \E d \in 1..Len(ValueOf(result[k]).entries) :
                          /\ ValueOf(result[k]).entries[d].key
                                = en.children[1].value
                          /\ ValueOf(result[k]).entries[d].val
                                = LookupBefore(e.value, k)

(* ------------------------------------------------------------------ *)
(* C2                                                                   *)
(* ------------------------------------------------------------------ *)

(* C2: a run that fails ends with a non-zero status and leaves the     *)
(* file at the output path as it was; the file is touched only after   *)
(* the whole pipeline has succeeded.                                    *)
C2_FailureLeavesOutput ==
    /\ (pc = "done" /\ message # "none") => status # 0
    /\ status # 0 => outfile = OldFile

(* ------------------------------------------------------------------ *)
(* C3                                                                   *)
(* ------------------------------------------------------------------ *)
KindOf(op, l, r) ==
    IF op = "div" THEN "Float"
    ELSE IF l.k = "Integer" /\ r.k = "Integer" THEN "Integer" ELSE "Float"

(* the last output item binds the result of a binary operation *)
BindsBinaryOp ==
    /\ ~ParseFailed /\ Len(result) >= 1 /\ ops # <<>>
    /\ IsConstItem(ItemAt(Len(result)))
    /\ ConstValue(ItemAt(Len(result))).data = "const_expr"
    /\ ConstValue(ItemAt(Len(result))).children[1].children[1].data
          \in BinaryOps

(* C3: on two numbers (a non-zero right one for div) add, sub and mul  *)
(* give an Integer iff both operands are Integer and a Float otherwise,*)
(* div always gives a Float (10 / 2 is Float 5.0, Integer 10 * 2 is    *)
(* Integer 20); the bound constant and later references to it carry    *)
(* that value and kind.                                                 *)
C3_NumericKinds ==
    /\ \A i \in 1..Len(ops) :
          LET o == ops[i] IN
          (/\ o.op \in BinaryOps /\ IsNum(o.left) /\ IsNum(o.right)
           /\ (o.op = "div" => Units(o.right) # 0))
          => /\ IsNum(o.out)
             /\ o.out.k = KindOf(o.op, o.left, o.right)
             /\ (o.op = "div" /\ o.left = IntV(10) /\ o.right = IntV(2))
                   => o.out = FloatV(5 * Scale)
             /\ (o.op = "mul" /\ o.left = IntV(10) /\ o.right = IntV(2))
                   => o.out = IntV(20)
    /\ BindsBinaryOp =>
          /\ result[Len(result)].value = ops[Len(ops)].out
          /\ constants[ConstName(ItemAt(Len(result)))] = ops[Len(ops)].out
    /\ \A k \in 1..Len(result) :
          (/\ IsConstItem(ItemAt(k)) /\ ConstValue(ItemAt(k)).data = "CNAME"
           /\ IsNum(LookupBefore(ConstValue(ItemAt(k)).value, k)))
          => result[k].value = LookupBefore(ConstValue(ItemAt(k)).value, k)

(* an exact division of two Integers was bound as a Float and then     *)
(* multiplied as a Float by a later item                                *)
C3_Witness ==
    /\ Len(result) >= 2
    /\ \E k \in 1..(Len(result) - 1) :
          /\ result[k].k = "const"
          /\ result[k].value = FloatV(5 * Scale)
          /\ ConstValue(ItemAt(k)).data = "const_expr"
    /\ ops # <<>>
    /\ ops[Len(ops)].op = "mul"
    /\ ops[Len(ops)].left = FloatV(5 * Scale)
    /\ ops[Len(ops)].right = IntV(2)
    /\ ops[Len(ops)].out = FloatV(10 * Scale)
    /\ BindsBinaryOp

(* ------------------------------------------------------------------ *)
(* C4                                                                   *)
(* ------------------------------------------------------------------ *)
ZeroDivisor(o) ==
    /\ o.op = "div" /\ IsNum(o.left) /\ IsNum(o.right)
    /\ Units(o.right) = 0

(* C4: a div of two numbers whose right operand is zero (Integer 0 or  *)
(* Float 0.0, a literal, a constant or a computed value) raises        *)
(* ZeroDivisionError: it is the last operation of the run, the         *)
(* enclosing const is not bound, the run is reported as a division by  *)
(* zero with a non-zero status and the output file is not touched.     *)
C4_DivisionByZero ==
    \A i \in 1..Len(ops) :
        ZeroDivisor(ops[i]) =>
            /\ ops[i].out = Raise("ZeroDivisionError")
            /\ i = Len(ops)
            /\ pc = "done" /\ status = 1 /\ message = "Runtime error"
            /\ Len(result) < Len(doc)
            /\ constants = TableBefore(Len(result) + 1)
            /\ root = <<>> /\ outfile = OldFile

(* a division by a Float zero computed by a sub-expression has failed *)
C4_Witness ==
    /\ pc = "done" /\ message = "Runtime error"
    /\ Len(ops) = 2
    /\ ops[1].op = "sub" /\ ops[1].out = FloatV(0)
    /\ ops[2].op = "div" /\ ops[2].right = FloatV(0)
    /\ ops[2].left = IntV(0)

(* ------------------------------------------------------------------ *)
(* C5                                                                   *)
(* ------------------------------------------------------------------ *)

(* C5: a binary operation with an operand that is not a number (a      *)
(* Symbol, an Array, a Dict) raises TypeError whatever the operator    *)
(* and the other operand, a zero divisor included; the enclosing const *)
(* is not bound and the run is reported as a type error.                *)
C5_TypeMismatch ==
    \A i \in 1..Len(ops) :
        (ops[i].op \in BinaryOps
            /\ ~(IsNum(ops[i].left) /\ IsNum(ops[i].right)))
        => /\ ops[i].out = Raise("TypeError")
           /\ i = Len(ops)
           /\ pc = "done" /\ status = 1 /\ message = "Type error"
           /\ Len(result) < Len(doc)
           /\ constants = TableBefore(Len(result) + 1)
           /\ root = <<>> /\ outfile = OldFile

(* a Symbol divided by a computed zero has failed as a type error *)
C5_Witness ==
    /\ pc = "done" /\ message = "Type error"
    /\ Len(ops) = 2
    /\ ops[2].op = "div" /\ ops[2].left = Sym("b")
    /\ ops[2].right = IntV(0)
    /\ ops[2].out = Raise("TypeError")

(* ------------------------------------------------------------------ *)
(* C6                                                                   *)
(* ------------------------------------------------------------------ *)

(* C6: a call is evaluated by the name written in the source: len of   *)
(* an Array of n elements is Integer n and a TypeError on anything     *)
(* else; abs of a number is its magnitude with the same kind and a     *)
(* TypeError on anything else; a call ends in no other failure.        *)
C6_BuiltinCalls ==
    \A i \in 1..Len(ops) :
        ops[i].op \in {"len", "abs"} =>
            LET arg == _get_value(ops[i].left, TableBefore(OpsItem)).val IN
            ops[i].out =
                IF ops[i].op = "len"
                THEN IF arg.k = "Array" THEN IntV(Len(arg.items))
                     ELSE Raise("TypeError")
                ELSE IF arg.k = "Integer" THEN IntV(Abs(arg.n))
                     ELSE IF arg.k = "Float" THEN FloatV(Abs(arg.m))
                     ELSE Raise("TypeError")

(* ------------------------------------------------------------------ *)
(* C7                                                                   *)
(* ------------------------------------------------------------------ *)
IsDigit(c)  == \E d \in 1..10 : DigitChars[d] = c
DigitVal(c) == (CHOOSE d \in 1..10 : DigitChars[d] = c) - 1

RECURSIVE ParseNat(_)
ParseNat(t) ==
    IF t = <<>> THEN 0
    ELSE ParseNat(SubSeq(t, 1, Len(t) - 1)) * 10 + DigitVal(t[Len(t)])

RECURSIVE FracUnits(_, _)
FracUnits(t, scale) ==
    IF t = <<>> THEN 0
    ELSE DigitVal(t[1]) * (scale \div 10) + FracUnits(Tail(t), scale \div 10)

Unsigned(t) == IF t # <<>> /\ t[1] = "-" THEN Tail(t) ELSE t
Signed(t, n) == IF t # <<>> /\ t[1] = "-" THEN -n ELSE n
AllDigits(t) == t # <<>> /\ \A i \in 1..Len(t) : IsDigit(t[i])
Points(t)    == {i \in 1..Len(t) : t[i] = "."}

(* the number a text denotes, None when the text is not of that kind *)
ReadInteger(t) ==
    IF AllDigits(Unsigned(t)) THEN IntV(Signed(t, ParseNat(Unsigned(t))))
    ELSE NoneV
ReadFloat(t) ==
    LET u == Unsigned(t) IN
    IF Cardinality(Points(u)) # 1 THEN NoneV
    ELSE LET p == CHOOSE i \in Points(u) : TRUE
             whole == SubSeq(u, 1, p - 1)
             frac == SubSeq(u, p + 1, Len(u))
         IN IF AllDigits(whole) /\ AllDigits(frac)
            THEN FloatV(Signed(t, ParseNat(whole) * Scale
                                  + FracUnits(frac, Scale)))
            ELSE NoneV

RECURSIVE from_xml(_)
(* the output item or value an element stands for *)
from_xml(e) ==
    CASE e.tag = "number" ->
            IF e.attrib = <<<<"type", "integer">>>> THEN ReadInteger(e.text)
            ELSE IF e.attrib = <<<<"type", "float">>>> THEN ReadFloat(e.text)
            ELSE NoneV
      [] e.tag = "string" -> Sym(e.text[1])
      [] e.tag = "array" ->
            Arr([i \in 1..Len(e.children) |-> from_xml(e.children[i])])
      [] e.tag = "dict" ->
            DictV([i \in 1..Len(e.children) |->
                      [key |-> e.children[i].attrib[1][2],
                       val |-> from_xml(e.children[i].children[1])]])
      [] e.tag = "const" ->
            [k |-> "const", name |-> e.attrib[1][2],
             value |-> from_xml(e.children[1])]
      [] OTHER -> NoneV

(* C7: the tree built by value_to_xml determines the output items: the *)
(* root has one child per item in source order, and reading each child *)
(* back (a number by its type tag and text, a string by its text, an   *)
(* array and a dict by their children in order, a const by its name)   *)
(* gives the item it was built from, so two different lists of items   *)
(* never give the same tree.                                            *)
C7_RoundTrip ==
    root # <<>> =>
        /\ root[1].tag = "config"
        /\ Len(root[1].children) = Len(result)
        /\ \A i \in 1..Len(result) : from_xml(root[1].children[i]) = result[i]

(* a tree was built from a Float with a fraction, an Integer, a Symbol *)
(* inside an Array, and a Dict                                          *)
C7_Witness ==
    /\ root # <<>>
    /\ \E i \in 1..Len(result) :
          result[i].k = "const" /\ result[i].value = FloatV(250)
    /\ \E i \in 1..Len(result) :
          /\ ValueOf(result[i]).k = "Array"
          /\ ValueOf(result[i]).items = <<IntV(2), Sym("b")>>
    /\ \E i \in 1..Len(result) : ValueOf(result[i]).k = "Dict"

(* ------------------------------------------------------------------ *)
(* C8                                                                   *)
(* ------------------------------------------------------------------ *)

(* C8: the whole text is parsed before anything is evaluated: for a    *)
(* document with a syntax error nothing is evaluated, no constant is   *)
(* bound, and the run is reported as a syntax error.                    *)
C8_ParseBeforeEvaluate ==
    HasSyntaxError =>
        /\ constants = NoConstants
        /\ result = <<>>
        /\ ops = <<>>
        /\ pc = "done" => message = "Syntax error"

(* ------------------------------------------------------------------ *)
(* C9                                                                   *)
(* ------------------------------------------------------------------ *)

(* C9: an array literal of n >= 0 elements evaluates to an Array of    *)
(* exactly n values, the i-th being the value of the i-th element; the *)
(* empty literal gives an Array without elements.                       *)
C9_ArrayElements ==
    \A k \in 1..Len(result) :
        IsLiteral(ItemAt(k), "array") =>
            LET lit == LiteralOf(ItemAt(k)).children
                a == ValueOf(result[k]).items
            IN /\ Len(a) = Len(lit)
               /\ \A i \in 1..Len(lit) :
                     lit[i].children[1].data = "number"
                        => a[i] = number(lit[i].children[1])

(* ------------------------------------------------------------------ *)
(* C10                                                                  *)
(* ------------------------------------------------------------------ *)
SetMin(S) == CHOOSE x \in S : \A y \in S : x <= y

(* C10: a Dict made from a table literal has pairwise distinct keys,   *)
(* which are the identifier texts of the entries whatever the constant *)
(* table binds; a repeated key does not fail: its entry stands where   *)
(* the key first occurs and holds the value of its last occurrence,    *)
(* and distinct keys keep their source order.                           *)
C10_DictKeys ==
    \A k \in 1..Len(result) :
        IsLiteral(ItemAt(k), "dict") =>
            LET lit == LiteralOf(ItemAt(k)).children
                d == ValueOf(result[k]).entries
                Occ(key) == {i \in 1..Len(lit) :
                                lit[i].children[1].value = key}
                Alone(i) == Reduce(Tree("dict", <<lit[i]>>),
                                   TableBefore(k)).val.entries[1].val
            IN /\ ValueOf(result[k]).k = "Dict"
               /\ \A i, j \in 1..Len(d) : i # j => d[i].key # d[j].key
               /\ {d[i].key : i \in 1..Len(d)}
                     = {lit[i].children[1].value : i \in 1..Len(lit)}
               /\ \A i, j \in 1..Len(d) :
                     i < j => SetMin(Occ(d[i].key)) < SetMin(Occ(d[j].key))
               /\ \A i \in 1..Len(d) : d[i].val = Alone(SetMax(Occ(d[i].key)))

(* a table that repeats key a was read while a and b were bound: the   *)
(* key stays a, first, with the value of its last occurrence            *)
C10_Witness ==
    /\ Len(result) = 3
    /\ IsLiteral(ItemAt(3), "dict")
    /\ LookupBefore("a", 3) = IntV(10)
    /\ LookupBefore("b", 3) = IntV(0)
    /\ Len(LiteralOf(ItemAt(3)).children) = 3
    /\ ValueOf(result[3]).entries
          = <<[key |-> "a", val |-> IntV(0)], [key |-> "b", val |-> IntV(10)]>>

====
